---- MODULE Spec2Model ----
(***************************************************************************)
(* Model of build_image/controller_start.py: the topology builder          *)
(* (build_node_defs) and the placeholder template (class Config).          *)
(*                                                                         *)
(* Text is a sequence of one-character strings (a formatted number is one  *)
(* element), so that split, join, replace and the placeholder scan are     *)
(* computed on text the way the Python code computes them.                 *)
(***************************************************************************)
EXTENDS Integers, Sequences, FiniteSets, TLC

VARIABLES
    \* ---- build_node_defs ----
    n_workers,      \* int(canine_conf_n_workers)
    gpu_type,       \* canine_conf_gpus, before the colon
    gpu_count,      \* int(canine_conf_gpus after the colon)
    mtypes,         \* rows of the machine-type table iterated so far
    manifest,       \* lines written to instance_manifest.tsv
    nodes,          \* list of node definition lines
    partitions,     \* dict partname -> list of node names, in insertion order
    bpc,            \* "loop" while iterating, "returned" after the return
    result,         \* value returned by build_node_defs
    \* ---- Config ----
    text,           \* Config.text
    items,          \* the dict part of Config, in insertion order
    itemsB,         \* a second Config over the same template
    file,           \* content of the destination path
    cpc,            \* "open" until dump/write is called, then "done"
    out,            \* outcome of dump/write on the first Config
    outB            \* outcome of dump on the second Config

bvars == <<n_workers, gpu_type, gpu_count, mtypes, manifest, nodes, partitions, bpc, result>>
cvars == <<text, items, itemsB, file, cpc, out, outB>>
vars == <<n_workers, gpu_type, gpu_count, mtypes, manifest, nodes, partitions, bpc, result,
          text, items, itemsB, file, cpc, out, outB>>

\* Python None, and a path with no file: markers no text is equal to
None == <<"None">>
Absent == <<"absent">>

(***************************************************************************)
(* Bounds of the model.                                                    *)
(***************************************************************************)
MaxRecords == 2     \* rows in the machine-type table
MaxW == 2           \* largest workers-per-group value
MaxGpuCount == 1    \* largest GPU count
MaxPieces == 3      \* pieces a template text is assembled from

(***************************************************************************)
(* Text helpers: str.split, str.join.                                      *)
(***************************************************************************)
RECURSIVE Split(_, _)
Split(s, sep) ==
    IF \A k \in 1..Len(s) : s[k] # sep
    THEN <<s>>
    ELSE LET p == CHOOSE k \in 1..Len(s) : s[k] = sep /\ \A m \in 1..(k-1) : s[m] # sep
         IN  <<SubSeq(s, 1, p-1)>> \o Split(SubSeq(s, p+1, Len(s)), sep)

RECURSIVE Join(_, _)
Join(segs, sep) ==
    IF Len(segs) = 0 THEN <<>>
    ELSE IF Len(segs) = 1 THEN segs[1]
    ELSE segs[1] \o <<sep>> \o Join(Tail(segs), sep)

\* int(x) for the rational x = num/den, den > 0: truncation toward zero
IntOf(num, den) ==
    IF num >= 0 THEN num \div den ELSE -((-num) \div den)

(***************************************************************************)
(* Inputs of build_node_defs.                                              *)
(***************************************************************************)
ClusterName == "cluster"

\* machine-type names as text
MachineNames ==
    { <<"n", "-", "s", "-", "1">>,           \* three segments, family n-s
      <<"n", "-", "s", "-", "2">>,           \* three segments, family n-s
      <<"e", "-", "h", "-", "1">>,           \* three segments, family e-h
      <<"f", "-", "m">>,                     \* two segments
      <<"n", "-", "s", "-", "1", "-", "g">>  \* four segments
    }

\* CPUS column
CpuCounts == {0, 2}

\* MEMORY_GB column, as rationals num/den
MemoryGBs == { [num |-> 0, den |-> 1], [num |-> 1, den |-> 4], [num |-> 15, den |-> 4] }

Rows == [name : MachineNames, CPUS : CpuCounts, MEMORY_GB : MemoryGBs]

GpuTypes == {"v100"}

(***************************************************************************)
(* build_node_defs                                                         *)
(***************************************************************************)
\* faulty variant of WorkerName: the range starts at i*n_workers
WorkerNameOffByOne(cluster_name, i, W) ==
    <<cluster_name, "-worker[", ToString(i * W), "-", ToString((1 + i) * W), "]">>

\* '{}-worker[{}-{}]'.format(cluster_name, 1+(i*n_workers), (1+i)*n_workers)
WorkerName(cluster_name, i, W) ==
    <<cluster_name, "-worker[", ToString(1 + (i * W)), "-", ToString((1 + i) * W), "]">>

\* '{}-xgpu-worker[{}-{}]'.format(cluster_name, 1+(i*n_workers), (1+i)*n_workers)
GpuName(cluster_name, i, W) ==
    <<cluster_name, "-xgpu-worker[", ToString(1 + (i * W)), "-", ToString((1 + i) * W), "]">>

\* '-'.join(name.split('-')[:-1])
PartName(name) ==
    LET segs == Split(name, "-")
    IN  Join(SubSeq(segs, 1, Len(segs) - 1), "-")

\* len(name.split('-')) == 3
Matches(name) == Len(Split(name, "-")) = 3

\* faulty variant of RealMemory: int() applied to MEMORY_GB before scaling
RealMemoryWholeGB(m) == (993 * IntOf(m.num, m.den)) - 400

\* int((993 * row.MEMORY_GB)-400)
RealMemory(m) == IntOf((993 * m.num) - (400 * m.den), m.den)

\* the manifest lines of one record: for j in range(1+(i*n_workers), 1+((1+i)*n_workers))
RECURSIVE ManifestLines(_, _, _, _)
ManifestLines(cluster_name, lo, hi, name) ==
    IF lo > hi THEN <<>>
    ELSE <<[hostname |-> <<cluster_name, "-worker", ToString(lo)>>, machine_type |-> name]>>
         \o ManifestLines(cluster_name, lo + 1, hi, name)

\* 'NodeName={name} CPUs={cpu} RealMemory={mem} State=CLOUD Weight={cpu}'
CpuNodeLine(worker_name, row) ==
    << <<"NodeName", worker_name>>, <<"CPUs", row.CPUS>>,
       <<"RealMemory", RealMemory(row.MEMORY_GB)>>, <<"State", "CLOUD">>,
       <<"Weight", row.CPUS>> >>

\* faulty variant of GpuNodeLine: the weight is not doubled
GpuNodeLineSameWeight(gpu_name, row, gtype, gcount) ==
    << <<"NodeName", gpu_name>>, <<"CPUs", row.CPUS>>,
       <<"RealMemory", IntOf((993 * row.MEMORY_GB.num) - (400 * row.MEMORY_GB.den),
                             row.MEMORY_GB.den)>>,
       <<"State", "CLOUD">>, <<"Weight", row.CPUS>>, <<"Gres", <<"gpu", gtype, gcount>> >> >>

\* 'NodeName={name} CPUs={cpu} RealMemory={mem} State=CLOUD Weight={weight} Gres=gpu:{gpu_type}:{gpu_count}'
GpuNodeLine(gpu_name, row, gtype, gcount) ==
    << <<"NodeName", gpu_name>>, <<"CPUs", row.CPUS>>,
       <<"RealMemory", RealMemory(row.MEMORY_GB)>>, <<"State", "CLOUD">>,
       <<"Weight", 2 * row.CPUS>>, <<"Gres", <<"gpu", gtype, gcount>> >> >>

\* partname in partitions
HasKey(d, key) == \E k \in 1..Len(d) : d[k][1] = key

\* faulty variant of AppendTo: a present key gets a fresh list
AppendToOverwrite(d, key, x) ==
    IF HasKey(d, key)
    THEN [k \in 1..Len(d) |-> IF d[k][1] = key THEN <<key, <<x>> >> ELSE d[k]]
    ELSE Append(d, <<key, <<x>> >>)

\* partitions[partname].append(x), or partitions[partname] = [x] for a new key
AppendTo(d, key, x) ==
    IF HasKey(d, key)
    THEN [k \in 1..Len(d) |-> IF d[k][1] = key THEN <<key, Append(d[k][2], x)>> ELSE d[k]]
    ELSE Append(d, <<key, <<x>> >>)

\* 'PartitionName={} Nodes={}'.format(key, ','.join(value))
PartitionLine(key, value) ==
    << <<"PartitionName", key>>, <<"Nodes", Join(value, ",")>> >>

\* faulty variant of AllMembers: only the first family is listed
AllMembersFirstFamily(d) ==
    IF Len(d) = 0 THEN <<>> ELSE d[1][2]

\* node for nodes in partitions.values() for node in nodes
RECURSIVE AllMembers(_)
AllMembers(d) ==
    IF Len(d) = 0 THEN <<>> ELSE d[1][2] \o AllMembers(Tail(d))

\* 'PartitionName=all Nodes={} Default=YES'.format(','.join(...))
AllLine(d) ==
    << <<"PartitionName", <<"a", "l", "l">> >>, <<"Nodes", Join(AllMembers(d), ",")>>,
       <<"Default", "YES">> >>

InitBuild ==
    /\ n_workers \in (-1)..MaxW
    /\ gpu_type \in GpuTypes
    /\ gpu_count \in 0..MaxGpuCount
    /\ mtypes = <<>>
    /\ manifest = << [hostname |-> <<"hostname">>, machine_type |-> <<"machine_type">>] >>
    /\ nodes = <<>>
    /\ partitions = <<>>
    /\ bpc = "loop"
    /\ result = [kind |-> "none"]
    \* no Config is constructed
    /\ text = <<>>
    /\ items = <<>>
    /\ itemsB = <<>>
    /\ file = Absent
    /\ cpc = "idle"
    /\ out = [op |-> "none"]
    /\ outB = [op |-> "none"]

\* one iteration of: for i, (name, row) in enumerate(mtypes.iterrows())
LoopBody(row) ==
    /\ bpc = "loop"
    /\ Len(mtypes) < MaxRecords
    /\ LET i == Len(mtypes)
           name == row.name
           partname == PartName(name)
           worker_name == WorkerName(ClusterName, i, n_workers)
           gpu_name == GpuName(ClusterName, i, n_workers)
       IN  /\ mtypes' = Append(mtypes, row)
           /\ IF Matches(name)
              THEN /\ manifest' = manifest \o
                        ManifestLines(ClusterName, 1 + (i * n_workers), (1 + i) * n_workers, name)
                   /\ IF gpu_count > 0
                      THEN /\ nodes' = nodes \o <<CpuNodeLine(worker_name, row),
                                                  GpuNodeLine(gpu_name, row, gpu_type, gpu_count)>>
                           /\ partitions' = AppendTo(AppendTo(partitions, partname, worker_name),
                                                     partname, gpu_name)
                      ELSE /\ nodes' = Append(nodes, CpuNodeLine(worker_name, row))
                           /\ partitions' = AppendTo(partitions, partname, worker_name)
              ELSE UNCHANGED <<manifest, nodes, partitions>>
    /\ UNCHANGED <<n_workers, gpu_type, gpu_count, bpc, result>>

\* the return statement, after the last row
Return ==
    /\ bpc = "loop"
    /\ bpc' = "returned"
    /\ result' = [kind |-> "ok",
                  nodes |-> nodes,
                  parts |-> [k \in 1..Len(partitions) |->
                                PartitionLine(partitions[k][1], partitions[k][2])]
                            \o <<AllLine(partitions)>>]
    /\ UNCHANGED <<n_workers, gpu_type, gpu_count, mtypes, manifest, nodes, partitions>>

NextBuild ==
    \/ \E row \in Rows : LoopBody(row) /\ UNCHANGED cvars
    \/ Return /\ UNCHANGED cvars

(***************************************************************************)
(* Inputs of Config: template texts, placeholder names and values.         *)
(***************************************************************************)
Pieces ==
    { <<"<", "a", ">">>, <<"<", "b", ">">>, <<"<">>, <<">">>, <<"\n">> }

RECURSIVE Concat(_)
Concat(ps) == IF Len(ps) = 0 THEN <<>> ELSE ps[1] \o Concat(Tail(ps))

Texts == { Concat(ps) : ps \in UNION { [1..n -> Pieces] : n \in 0..MaxPieces } }

\* names a caller may set besides those the scan discovered
ExtraNames == { <<"a">>, <<"b">> }

\* values a caller may set
Values == { <<>>, <<"x">>, <<"<", "a", ">">>, <<"<", "b", ">">> }

\* content of the destination before write is called
OldFiles == { Absent, <<"o", "l", "d">> }

(***************************************************************************)
(* class Config                                                            *)
(***************************************************************************)
SetMin(S) == CHOOSE x \in S : \A y \in S : x <= y

\* placeholder = re.compile(r'\<(.+?)\>'): the end of the match starting at p, or 0.
\* '.' matches any character but a newline, '+?' takes at least one and as few as possible.
MatchEnd(t, p) ==
    IF p > Len(t) \/ t[p] # "<" THEN 0
    ELSE LET ends == { q \in (p+2)..Len(t) :
                         t[q] = ">" /\ \A m \in (p+1)..(q-1) : t[m] # "\n" }
         IN  IF ends = {} THEN 0 ELSE SetMin(ends)

\* [match.group(1) for match in placeholder.finditer(text)], scanning from p
RECURSIVE FindIter(_, _)
FindIter(t, p) ==
    IF p > Len(t) THEN <<>>
    ELSE LET e == MatchEnd(t, p)
         IN  IF e = 0 THEN FindIter(t, p + 1)
             ELSE <<SubSeq(t, p + 1, e - 1)>> \o FindIter(t, e + 1)

\* key in self
Contains(d, key) == \E k \in 1..Len(d) : d[k][1] = key

\* self[key] = val: a present key keeps its position, a new key goes last
SetItem(d, key, val) ==
    IF Contains(d, key)
    THEN [k \in 1..Len(d) |-> IF d[k][1] = key THEN <<key, val>> ELSE d[k]]
    ELSE Append(d, <<key, val>>)

\* {match.group(1): None for match in placeholder.finditer(self.text)}
RECURSIVE DictOfKeys(_, _)
DictOfKeys(d, keys) ==
    IF Len(keys) = 0 THEN d ELSE DictOfKeys(SetItem(d, keys[1], None), Tail(keys))

\* Config.__init__, after the file was read into t
ConfigInit(t) == DictOfKeys(<<>>, FindIter(t, 1))

\* s.replace(old, new) for a non-empty old
RECURSIVE Replace(_, _, _)
Replace(s, old, new) ==
    IF Len(s) < Len(old) THEN s
    ELSE IF SubSeq(s, 1, Len(old)) = old
         THEN new \o Replace(SubSeq(s, Len(old) + 1, Len(s)), old, new)
         ELSE <<s[1]>> \o Replace(Tail(s), old, new)

\* the loop of Config.dump from the k-th item on
RECURSIVE DumpLoop(_, _, _)
DumpLoop(output, d, k) ==
    IF k > Len(d) THEN [kind |-> "text", value |-> output]
    ELSE IF d[k][2] = None
         THEN [kind |-> "ValueError", msg |-> <<"Setting '">> \o d[k][1] \o <<"' left blank">>]
         ELSE DumpLoop(Replace(output, <<"<">> \o d[k][1] \o <<">">>, d[k][2]), d, k + 1)

\* faulty variant of Config.dump: 'if not val' in place of 'if val is None'
RECURSIVE DumpLoopFalsy(_, _, _)
DumpLoopFalsy(output, d, k) ==
    IF k > Len(d) THEN [kind |-> "text", value |-> output]
    ELSE IF d[k][2] = None \/ d[k][2] = <<>>
         THEN [kind |-> "ValueError", msg |-> <<"Setting '">> \o d[k][1] \o <<"' left blank">>]
         ELSE DumpLoopFalsy(Replace(output, <<"<">> \o d[k][1] \o <<">">>, d[k][2]), d, k + 1)

DumpFalsy(t, d) == DumpLoopFalsy(t, d, 1)

\* Config.dump
Dump(t, d) == DumpLoop(t, d, 1)

\* Config.write: the content of path afterwards. open(path, 'w') creates or
\* truncates the file before self.dump() is evaluated.
FileAfterWrite(r) == IF r.kind = "text" THEN r.value ELSE <<>>

InitConfig ==
    /\ text \in Texts
    /\ items = ConfigInit(text)
    /\ itemsB = <<>>
    /\ file \in OldFiles
    /\ cpc = "open"
    /\ out = [op |-> "none"]
    /\ outB = [op |-> "none"]
    \* build_node_defs is not called
    /\ n_workers = 0
    /\ gpu_type = ""
    /\ gpu_count = 0
    /\ mtypes = <<>>
    /\ manifest = <<>>
    /\ nodes = <<>>
    /\ partitions = <<>>
    /\ bpc = "idle"
    /\ result = [kind |-> "none"]

SettableNames == { FindIter(text, 1)[k] : k \in 1..Len(FindIter(text, 1)) } \cup ExtraNames

\* config[key] = val
SetCall(key, val) ==
    /\ cpc = "open"
    /\ items' = SetItem(items, key, val)
    /\ UNCHANGED <<text, itemsB, file, cpc, out, outB>>

\* config.dump()
DumpCall ==
    /\ cpc = "open"
    /\ cpc' = "done"
    /\ out' = [op |-> "dump", res |-> Dump(text, items), before |-> file]
    /\ UNCHANGED <<text, items, itemsB, file, outB>>

\* config.write(path)
WriteCall ==
    /\ cpc = "open"
    /\ cpc' = "done"
    /\ out' = [op |-> "write", res |-> Dump(text, items), before |-> file]
    /\ file' = FileAfterWrite(Dump(text, items))
    /\ UNCHANGED <<text, items, itemsB, outB>>

NextConfig ==
    \/ \E key \in SettableNames, val \in Values : SetCall(key, val) /\ UNCHANGED bvars
    \/ DumpCall /\ UNCHANGED bvars
    \/ WriteCall /\ UNCHANGED bvars

(***************************************************************************)
(* Two Config objects over one template that receive the same assignments  *)
(* in different orders.                                                    *)
(***************************************************************************)
InitOrder ==
    /\ text \in Texts
    /\ items = ConfigInit(text)
    /\ itemsB = ConfigInit(text)
    /\ file = Absent
    /\ cpc = "open"
    /\ out = [op |-> "none"]
    /\ outB = [op |-> "none"]
    \* build_node_defs is not called
    /\ n_workers = 0
    /\ gpu_type = ""
    /\ gpu_count = 0
    /\ mtypes = <<>>
    /\ manifest = <<>>
    /\ nodes = <<>>
    /\ partitions = <<>>
    /\ bpc = "idle"
    /\ result = [kind |-> "none"]

\* A[key] = val and B[key] = val
SetBoth(key, val) ==
    /\ cpc = "open"
    /\ items' = SetItem(items, key, val)
    /\ itemsB' = SetItem(itemsB, key, val)
    /\ UNCHANGED <<text, file, cpc, out, outB>>

\* A[k1] = v1; A[k2] = v2 and B[k2] = v2; B[k1] = v1
SetReversed(k1, v1, k2, v2) ==
    /\ cpc = "open"
    /\ k1 # k2
    /\ items' = SetItem(SetItem(items, k1, v1), k2, v2)
    /\ itemsB' = SetItem(SetItem(itemsB, k2, v2), k1, v1)
    /\ UNCHANGED <<text, file, cpc, out, outB>>

\* A.dump() and B.dump()
DumpBoth ==
    /\ cpc = "open"
    /\ cpc' = "done"
    /\ out' = [op |-> "dump", res |-> Dump(text, items), before |-> file]
    /\ outB' = [op |-> "dump", res |-> Dump(text, itemsB), before |-> file]
    /\ UNCHANGED <<text, items, itemsB, file>>

NextOrder ==
    \/ \E key \in SettableNames, val \in Values : SetBoth(key, val) /\ UNCHANGED bvars
    \/ \E k1 \in SettableNames, k2 \in SettableNames, v1 \in Values, v2 \in Values :
          SetReversed(k1, v1, k2, v2) /\ UNCHANGED bvars
    \/ DumpBoth /\ UNCHANGED bvars

(***************************************************************************)
(* Specifications.                                                         *)
(***************************************************************************)
\* build_node_defs on any catalog
SpecBuild == InitBuild /\ [][NextBuild]_vars

\* one Config: construction, assignments, then dump or write
SpecConfig == InitConfig /\ [][NextConfig]_vars

\* two Configs given the same assignments in different orders
SpecOrder == InitOrder /\ [][NextOrder]_vars

(***************************************************************************)
(* Vocabulary of the properties.                                           *)
(***************************************************************************)
HasField(line, key) == \E k \in 1..Len(line) : line[k][1] = key
Field(line, key) == line[CHOOSE k \in 1..Len(line) : line[k][1] = key][2]

\* the members of a partition line: its Nodes field cut at the commas
Members(line) ==
    IF Field(line, "Nodes") = <<>> THEN <<>> ELSE Split(Field(line, "Nodes"), ",")

SeqToSet(q) == { q[k] : k \in 1..Len(q) }
NoRepeats(q) == \A j, k \in 1..Len(q) : j # k => q[j] # q[k]
Occurrences(q, x) == Cardinality({ k \in 1..Len(q) : q[k] = x })

\* a machine-type name with exactly three dash-separated segments
ThreeSegments(name) == Cardinality({ k \in 1..Len(name) : name[k] = "-" }) = 2

\* a name up to its last dash
FamilyKey(name) ==
    LET dashes == { k \in 1..Len(name) : name[k] = "-" }
        last == CHOOSE k \in dashes : \A m \in dashes : m <= k
    IN  SubSeq(name, 1, last - 1)

AllName == <<"a", "l", "l">>

\* the loop has just processed one more record
Stepped == bpc = "loop" /\ Len(mtypes') = Len(mtypes) + 1
NewRow == mtypes'[Len(mtypes')]
NewNodes == SubSeq(nodes', Len(nodes) + 1, Len(nodes'))
NewManifest == SubSeq(manifest', Len(manifest) + 1, Len(manifest'))

Returned == bpc = "returned"
FamilyLines == SubSeq(result.parts, 1, Len(result.parts) - 1)
LastLine == result.parts[Len(result.parts)]

\* a node definition line of a GPU variant
IsGpuNode(line) == Field(line, "NodeName")[2] = "-xgpu-worker["

\* the members a family had before the step
MembersBefore(key) ==
    IF \E j \in 1..Len(partitions) : partitions[j][1] = key
    THEN partitions[CHOOSE j \in 1..Len(partitions) : partitions[j][1] = key][2]
    ELSE <<>>

\* the index range a NodeName encodes
RangeOf(name) ==
    LET R == 0..((MaxRecords + 1) * (MaxW + 1))
        b == CHOOSE p \in R \X R : name[3] = ToString(p[1]) /\ name[5] = ToString(p[2])
    IN  b[1]..b[2]

NodeNames == [k \in 1..Len(result.nodes) |-> Field(result.nodes[k], "NodeName")]

\* the per-family line whose members include x
LinesHolding(x) == { k \in 1..Len(FamilyLines) : Occurrences(Members(FamilyLines[k]), x) > 0 }

\* the sizing input the builder is required to reject
InvalidSizing ==
    \/ n_workers <= 0
    \/ \E k \in 1..Len(mtypes) :
          \/ mtypes[k].CPUS <= 0
          \/ mtypes[k].MEMORY_GB.num <= 0
          \/ (993 * mtypes[k].MEMORY_GB.num) - (400 * mtypes[k].MEMORY_GB.den) < 0

(***************************************************************************)
(* C5: whenever the workers-per-group value is non-positive, or a catalog  *)
(* record has a non-positive CPU count or memoryGB, or its computed memory *)
(* is negative, build_node_defs fails with a configuration error and       *)
(* returns no result.                                                      *)
(***************************************************************************)
RejectsInvalidSizing ==
    (Returned /\ InvalidSizing) => result.kind = "ConfigurationError"

(***************************************************************************)
(* C6: for W >= 1 the member list of the 'all' partition line is exactly   *)
(* the union of the members of the per-family lines, with no member listed *)
(* twice; the 'all' line is last and is the only line with Default=YES.    *)
(***************************************************************************)
PartitionCompleteness ==
    (Returned /\ n_workers >= 1) =>
        /\ Len(result.parts) >= 1
        /\ Field(LastLine, "PartitionName") = AllName
        /\ HasField(LastLine, "Default") /\ Field(LastLine, "Default") = "YES"
        /\ \A k \in 1..Len(FamilyLines) :
              /\ ~HasField(FamilyLines[k], "Default")
              /\ Field(FamilyLines[k], "PartitionName") # AllName
        /\ SeqToSet(Members(LastLine)) =
              UNION { SeqToSet(Members(FamilyLines[k])) : k \in 1..Len(FamilyLines) }
        /\ NoRepeats(Members(LastLine))

PartitionCompletenessWitness ==
    /\ Returned /\ n_workers >= 1 /\ gpu_count > 0
    /\ Len(FamilyLines) = 2
    /\ Len(Members(LastLine)) = 4

(***************************************************************************)
(* C7: for every matching record with memoryGB > 400/993, the RealMemory   *)
(* of its node definition, and of its GPU variant when there is one, is    *)
(* floor(993 * memoryGB) - 400, and is not negative.                       *)
(***************************************************************************)
MemoryInvariant ==
    [][ (Stepped /\ ThreeSegments(NewRow.name)
           /\ 993 * NewRow.MEMORY_GB.num > 400 * NewRow.MEMORY_GB.den) =>
          /\ Len(NewNodes) >= 1
          /\ \A k \in 1..Len(NewNodes) :
                /\ Field(NewNodes[k], "RealMemory") =
                      ((993 * NewRow.MEMORY_GB.num) \div NewRow.MEMORY_GB.den) - 400
                /\ Field(NewNodes[k], "RealMemory") >= 0 ]_vars

MemoryInvariantWitness ==
    /\ bpc = "loop" /\ Len(mtypes) >= 1 /\ gpu_count > 0
    /\ ThreeSegments(mtypes[Len(mtypes)].name)
    /\ mtypes[Len(mtypes)].MEMORY_GB = [num |-> 15, den |-> 4]
    /\ Len(nodes) >= 2
    /\ Field(nodes[Len(nodes)], "RealMemory") = 3323
    /\ Field(nodes[Len(nodes) - 1], "RealMemory") = 3323

(***************************************************************************)
(* C8: when the GPU count is > 0, every matching record yields, right      *)
(* after its CPU node definition, exactly one GPU node definition named    *)
(* <cluster>-xgpu-worker[a-b] with the same range, CPUs and RealMemory,    *)
(* Weight = 2 * CPUs and Gres=gpu:<type>:<count>, appended to the same     *)
(* family partition as the CPU node; when the GPU count is 0, no GPU node  *)
(* definition and no Gres field is emitted.                                *)
(***************************************************************************)
GpuPairing ==
    [][ (Stepped /\ ThreeSegments(NewRow.name)) =>
          IF gpu_count > 0
          THEN /\ Len(NewNodes) = 2
               /\ ~IsGpuNode(NewNodes[1]) /\ ~HasField(NewNodes[1], "Gres")
               /\ LET cpuName == Field(NewNodes[1], "NodeName")
                      gpuName == Field(NewNodes[2], "NodeName")
                  IN  /\ gpuName = <<ClusterName, "-xgpu-worker[", cpuName[3], "-", cpuName[5], "]">>
                      /\ Field(NewNodes[2], "CPUs") = NewRow.CPUS
                      /\ Field(NewNodes[2], "CPUs") = Field(NewNodes[1], "CPUs")
                      /\ Field(NewNodes[2], "RealMemory") = Field(NewNodes[1], "RealMemory")
                      /\ Field(NewNodes[2], "State") = "CLOUD"
                      /\ Field(NewNodes[2], "Weight") = 2 * NewRow.CPUS
                      /\ HasField(NewNodes[2], "Gres")
                      /\ Field(NewNodes[2], "Gres") = <<"gpu", gpu_type, gpu_count>>
                      /\ \E k \in 1..Len(partitions') :
                            partitions'[k][1] = FamilyKey(NewRow.name)
                      /\ \A k \in 1..Len(partitions') :
                            partitions'[k][2] =
                               MembersBefore(partitions'[k][1]) \o
                               (IF partitions'[k][1] = FamilyKey(NewRow.name)
                                THEN <<cpuName, gpuName>> ELSE <<>>)
          ELSE \A k \in 1..Len(NewNodes) :
                  ~IsGpuNode(NewNodes[k]) /\ ~HasField(NewNodes[k], "Gres") ]_vars

GpuPairingWitness ==
    /\ bpc = "loop" /\ gpu_count > 0 /\ n_workers = 2
    /\ Len(mtypes) = 2 /\ ThreeSegments(mtypes[1].name) /\ ThreeSegments(mtypes[2].name)
    /\ mtypes[2].CPUS = 2
    /\ Len(nodes) = 4
    /\ Field(nodes[4], "NodeName") = <<ClusterName, "-xgpu-worker[", "3", "-", "4", "]">>
    /\ Field(nodes[4], "Weight") = 4
    /\ Len(partitions) = 1 /\ Len(partitions[1][2]) = 4

(***************************************************************************)
(* C9: with i the zero-based position of a record in the whole catalog,    *)
(* every matching record gets exactly one CPU node definition named        *)
(* <cluster>-worker[1+i*W-(i+1)*W] with Weight = CPUs, and the manifest    *)
(* lists exactly the hostnames <cluster>-worker<j>, j in 1+i*W..(i+1)*W,   *)
(* against its machine type; a skipped record gets no node definition and  *)
(* creates no partition, and still consumes a position.                    *)
(***************************************************************************)
WorkerIndexRanges ==
    [][ Stepped =>
          LET i == Len(mtypes)
              lo == 1 + (i * n_workers)
              hi == (i + 1) * n_workers
              cpuLines == { k \in 1..Len(NewNodes) : ~IsGpuNode(NewNodes[k]) }
          IN  IF ThreeSegments(NewRow.name)
              THEN /\ Cardinality(cpuLines) = 1
                   /\ Field(NewNodes[1], "NodeName") =
                         <<ClusterName, "-worker[", ToString(lo), "-", ToString(hi), "]">>
                   /\ Field(NewNodes[1], "CPUs") = NewRow.CPUS
                   /\ Field(NewNodes[1], "Weight") = NewRow.CPUS
                   /\ Len(NewManifest) = (IF n_workers >= 0 THEN n_workers ELSE 0)
                   /\ \A k \in 1..Len(NewManifest) :
                         /\ NewManifest[k].hostname =
                               <<ClusterName, "-worker", ToString(lo + k - 1)>>
                         /\ NewManifest[k].machine_type = NewRow.name
              ELSE /\ nodes' = nodes
                   /\ partitions' = partitions
                   /\ manifest' = manifest ]_vars

WorkerIndexRangesWitness ==
    /\ bpc = "loop" /\ n_workers = 2 /\ Len(mtypes) = 2
    /\ ~ThreeSegments(mtypes[1].name) /\ ThreeSegments(mtypes[2].name)
    /\ Len(nodes) >= 1
    /\ Field(nodes[1], "NodeName") = <<ClusterName, "-worker[", "3", "-", "4", "]">>
    /\ Len(manifest) = 3
    /\ manifest[3].hostname = <<ClusterName, "-worker", "4">>
    /\ Len(partitions) = 1

(***************************************************************************)
(* C10: for W >= 1 the family partition member lists partition the set of  *)
(* emitted node definitions: NodeNames are pairwise distinct, the worker   *)
(* index ranges of distinct records do not overlap, every NodeName is in   *)
(* exactly one per-family line exactly once (the one keyed by its record's *)
(* name minus the last dash segment), and every member is the NodeName of  *)
(* an emitted node definition.                                             *)
(***************************************************************************)
NodePartitionConsistency ==
    (Returned /\ n_workers >= 1) =>
        /\ NoRepeats(NodeNames)
        /\ \A j, k \in 1..Len(NodeNames) :
              (j # k /\ IsGpuNode(result.nodes[j]) = IsGpuNode(result.nodes[k])) =>
                  RangeOf(NodeNames[j]) \cap RangeOf(NodeNames[k]) = {}
        /\ \A k \in 1..Len(NodeNames) :
              /\ Cardinality(LinesHolding(NodeNames[k])) = 1
              /\ \A f \in LinesHolding(NodeNames[k]) :
                    Occurrences(Members(FamilyLines[f]), NodeNames[k]) = 1
        /\ \A i \in 0..(Len(mtypes) - 1) :
              ThreeSegments(mtypes[i + 1].name) =>
                  \E f \in 1..Len(FamilyLines) :
                      /\ Field(FamilyLines[f], "PartitionName") = FamilyKey(mtypes[i + 1].name)
                      /\ Occurrences(Members(FamilyLines[f]),
                            <<ClusterName, "-worker[", ToString(1 + (i * n_workers)), "-",
                              ToString((i + 1) * n_workers), "]">>) = 1
        /\ \A f \in 1..Len(FamilyLines) :
              \A m \in SeqToSet(Members(FamilyLines[f])) : m \in SeqToSet(NodeNames)
        /\ \A f, g \in 1..Len(FamilyLines) :
              f # g => Field(FamilyLines[f], "PartitionName") # Field(FamilyLines[g], "PartitionName")

NodePartitionConsistencyWitness ==
    /\ Returned /\ n_workers = 2 /\ gpu_count > 0
    /\ Len(mtypes) = 2
    /\ ThreeSegments(mtypes[1].name) /\ ThreeSegments(mtypes[2].name)
    /\ FamilyKey(mtypes[1].name) # FamilyKey(mtypes[2].name)
    /\ Len(result.nodes) = 4
    /\ Len(FamilyLines) = 2

(***************************************************************************)
(* Vocabulary of the Config properties.                                    *)
(***************************************************************************)
\* the placeholder names the construction scan discovers
Discovered == SeqToSet(FindIter(text, 1))

\* the value bound to key in d
Bound(d, key) == d[CHOOSE k \in 1..Len(d) : d[k][1] = key][2]

Unset == { key \in Discovered : Bound(items, key) = None }

LeftBlank(key) == <<"Setting '">> \o key \o <<"' left blank">>

\* the discovered names whose literal <name> starts at position p of t
StartingAt(t, p) ==
    { key \in Discovered :
        /\ p + Len(key) + 1 <= Len(t)
        /\ SubSeq(t, p, p + Len(key) + 1) = <<"<">> \o key \o <<">">> }

\* t from position p on, with every literal <name> replaced by its value in one pass
RECURSIVE SubstituteOnce(_, _, _)
SubstituteOnce(t, d, p) ==
    IF p > Len(t) THEN <<>>
    ELSE IF StartingAt(t, p) # {}
         THEN LET key == CHOOSE k \in StartingAt(t, p) : TRUE
              IN  Bound(d, key) \o SubstituteOnce(t, d, p + Len(key) + 2)
         ELSE <<t[p]>> \o SubstituteOnce(t, d, p + 1)

\* two dicts with the same keys and the same value for every key
SameBindings(d, e) ==
    /\ { d[k][1] : k \in 1..Len(d) } = { e[k][1] : k \in 1..Len(e) }
    /\ \A k \in 1..Len(d) : Bound(e, d[k][1]) = d[k][2]

(***************************************************************************)
(* C1: when a discovered placeholder is unset, write(path) raises the      *)
(* error and leaves the destination exactly as it was before the call:     *)
(* not created, not truncated, no partial content.                         *)
(***************************************************************************)
WriteKeepsDestinationOnError ==
    (cpc = "done" /\ out.op = "write" /\ Unset # {}) =>
        /\ out.res.kind = "ValueError"
        /\ file = out.before

(***************************************************************************)
(* C2: with every discovered placeholder bound, dump() returns the         *)
(* original text with each literal <name> replaced by its value in one     *)
(* simultaneous pass; a value that contains <other> appears verbatim.      *)
(***************************************************************************)
NoRecursiveExpansion ==
    (cpc = "done" /\ out.op = "dump" /\ Unset = {} /\ Len(items) = Cardinality(Discovered)) =>
        /\ out.res.kind = "text"
        /\ out.res.value = SubstituteOnce(text, items, 1)

(***************************************************************************)
(* C3: two sequences of assignments on the same template that end with the *)
(* same final value for every name give the same dump() outcome, the same  *)
(* text or the same error.                                                 *)
(***************************************************************************)
OrderIndependent ==
    (cpc = "done" /\ SameBindings(items, itemsB)) => out.res = outB.res

(***************************************************************************)
(* C4: if a discovered placeholder still has no value, dump() raises a     *)
(* 'left blank' error naming an unset placeholder and returns no text; if  *)
(* every discovered placeholder has a value, dump() raises no error.       *)
(***************************************************************************)
FailFastOnUnset ==
    (cpc = "done" /\ out.op = "dump") =>
        IF Unset # {}
        THEN /\ out.res.kind = "ValueError"
             /\ \E key \in Unset : out.res.msg = LeftBlank(key)
        ELSE out.res.kind = "text"

FailFastOnUnsetWitness ==
    /\ cpc = "done" /\ out.op = "dump"
    /\ Cardinality(Discovered) = 2
    /\ Cardinality(Unset) = 1
    /\ Bound(items, items[1][1]) # None
    /\ out.res.kind = "ValueError"
    /\ out.res.msg = LeftBlank(items[2][1])

====
